---- MODULE Spec2Model ----
(***************************************************************************)
(* A model of scripts/converter.py: the notebook-to-edX course converter.  *)
(*                                                                         *)
(* Text is a sequence of tokens.  The tokens "#", " " and "\n" are single  *)
(* characters; every other token is a run of characters holding none of    *)
(* these three.  The regular expressions of the source are modelled by     *)
(* what they do on such sequences.                                         *)
(*                                                                         *)
(* Four specifications share the module:                                   *)
(*   SpecSplit  split_into_units on notebooks built cell by cell           *)
(*   SpecUnit   convert_unit on units built cell by cell                   *)
(*   SpecSyll   parse_syllabus on syllabi built line by line               *)
(*   Spec       converter, statement by statement                          *)
(***************************************************************************)
EXTENDS Integers, Sequences, FiniteSets, TLC

VARIABLES
    \* SpecSplit
    nb,              \* the notebook read by nbformat.read: a sequence of cells
    include_header,  \* the include_header argument
    units,           \* the value returned by split_into_units
    pcSplit,         \* "build" while the input grows, "done" after the call
    \* SpecUnit
    unit,            \* the unit handed to convert_unit
    unit_result,     \* what convert_unit did: raised, or the list returned
    pcUnit,          \* "build" while the input grows, "done" after the call
    \* the module-level table release_dates (read from scripts/release_dates)
    release_dates,
    \* SpecSyll
    syllabus,        \* the lines of the syllabus list, in document order
    parse_all,       \* the parse_all argument
    syll_result,     \* what parse_syllabus did: raised, or data.chapters
    pcSyll,          \* "build" while the input grows, "done" after the call
    \* Spec: one run of converter(mooc_folder, args, content_folder)
    args,            \* args.debug and args.open
    notebooks,       \* the notebooks of content_folder, by path
    fs,              \* the directories and files the run made, on disk
    html_files,      \* the identifiers save_html has written pages for
    data,            \* data.chapters, as parse_syllabus returned it
    xml_course,      \* the chapter elements under the root of course.xml
    course_xml,      \* what save_xml wrote to course.xml, if it has
    ci,              \* the chapter the outer loop is at
    si,              \* the sequential the inner loop is at
    error,           \* the exception that ended the run, if one did
    pc               \* the statement the run is at

\* ---------------------------------------------------------------- bounds
MaxCells == 2
MaxChars == 6
MaxUnitCells == 3
MaxOutputs == 2
MaxLines == 4
MaxCourseLines == 3

\* ------------------------------------------------------------ sequences
RECURSIVE Concat(_)
Concat(ss) == IF ss = <<>> THEN <<>> ELSE Head(ss) \o Concat(Tail(ss))

RECURSIVE Sum(_)
Sum(ns) == IF ns = <<>> THEN 0 ELSE Head(ns) + Sum(Tail(ns))

\* [f(x) for x in s]
Map(f(_), s) == [k \in 1..Len(s) |-> f(s[k])]

\* The lines of a text, s.split('\n'): the runs between "\n".
RECURSIVE LinesFrom(_, _, _, _)
LinesFrom(s, p, cur, acc) ==
    IF p > Len(s) THEN Append(acc, cur)
    ELSE IF s[p] = "\n" THEN LinesFrom(s, p + 1, <<>>, Append(acc, cur))
         ELSE LinesFrom(s, p + 1, Append(cur, s[p]), acc)

Lines(s) == LinesFrom(s, 1, <<>>, <<>>)

\* ------------------------------------------------------------ the frames
\* Each specification moves its own variables and leaves the others idle.
varsSplit == <<nb, include_header, units, pcSplit>>
varsUnit == <<unit, unit_result, pcUnit>>
varsSyll == <<syllabus, parse_all, syll_result, pcSyll>>
varsConv == <<args, notebooks, fs, html_files, data, xml_course, course_xml,
              ci, si, error, pc>>
vars == <<varsSplit, varsUnit, varsSyll, release_dates, varsConv>>

IdleSplit ==
    nb = <<>> /\ include_header = FALSE /\ units = <<>> /\ pcSplit = "idle"
IdleUnit ==
    /\ unit = [name |-> <<>>, cells |-> <<>>]
    /\ unit_result = [raised |-> FALSE, out |-> <<>>]
    /\ pcUnit = "idle"
IdleSyll ==
    /\ syllabus = <<>>
    /\ parse_all = FALSE
    /\ syll_result = [raised |-> FALSE, chapters |-> <<>>]
    /\ pcSyll = "idle"
IdleDates == release_dates = [n \in {} |-> <<>>]

\* The run of converter has not begun.
NotWritten == [written |-> FALSE, tree |-> <<>>]
IdleConv ==
    /\ args = [debug |-> FALSE, open |-> FALSE]
    /\ notebooks = [n \in {} |-> <<>>]
    /\ fs = {}
    /\ html_files = {}
    /\ data = <<>>
    /\ xml_course = <<>>
    /\ course_xml = NotWritten
    /\ ci = 0
    /\ si = 0
    /\ error = "none"
    /\ pc = "idle"

OnlySplit == UNCHANGED <<varsUnit, varsSyll, release_dates, varsConv>>
OnlyUnit == UNCHANGED <<varsSplit, varsSyll, release_dates, varsConv>>
OnlySyll == UNCHANGED <<varsSplit, varsUnit, release_dates, varsConv>>
OnlyConv ==
    UNCHANGED <<varsSplit, varsUnit, syllabus, parse_all, syll_result, pcSyll,
                release_dates, args, notebooks>>

\* ---------------------------------------------------------------- cells
\* A notebook cell (nbformat.NotebookNode).  has_outputs is hasattr(cell,
\* 'outputs'); outputs is cell.outputs when it has them.
Cell(t, src, ho, outs) ==
    [cell_type |-> t, source |-> src, has_outputs |-> ho, outputs |-> outs]

MarkdownCell(src) == Cell("markdown", src, FALSE, <<>>)
CodeCell(src, outs) == Cell("code", src, TRUE, outs)

\* current.new_notebook(metadata={'name': name}) and its cells
Unit(name, cells) == [name |-> name, cells |-> cells]

\* ------------------------------------------------------ split_into_units
\* The end of the line that starts at p: '.' does not match "\n", and '$'
\* (MULTILINE) matches before a "\n" or at the end of the text.
RECURSIVE LineEnd(_, _)
LineEnd(s, p) ==
    IF p + 1 > Len(s) \/ s[p + 1] = "\n" THEN p ELSE LineEnd(s, p + 1)

\* '^' (MULTILINE) matches at the start of the text and after each "\n".
AtLineStart(s, p) == p = 1 \/ s[p - 1] = "\n"

\* '^# .*$' matches at p
HeadingAt(s, p) ==
    /\ AtLineStart(s, p)
    /\ p + 1 <= Len(s)
    /\ s[p] = "#"
    /\ s[p + 1] = " "

\* re.split('(^# .*$)', s, flags=re.MULTILINE): the text between the
\* matches and, the group capturing, the matches themselves, alternating,
\* starting and ending with a (possibly empty) text.
RECURSIVE ReSplitFrom(_, _, _, _)
ReSplitFrom(s, p, cur, acc) ==
    IF p > Len(s) THEN Append(acc, cur)
    ELSE IF HeadingAt(s, p)
         THEN LET e == LineEnd(s, p)
              IN ReSplitFrom(s, e + 1, <<>>, acc \o <<cur, SubSeq(s, p, e)>>)
         ELSE ReSplitFrom(s, p + 1, Append(cur, s[p]), acc)

ReSplit(s) == ReSplitFrom(s, 1, <<>>, <<>>)

\* dropwhile(lambda cell: cell.cell_type != 'markdown', nb.cells)
RECURSIVE DropWhileNotMarkdown(_)
DropWhileNotMarkdown(cells) ==
    IF cells = <<>> THEN <<>>
    ELSE IF Head(cells).cell_type # "markdown"
         THEN DropWhileNotMarkdown(Tail(cells))
         ELSE cells

\* (mutant) every cell is split on heading lines, code cells too
SplitCellAnyType(cell) == Map(MarkdownCell, ReSplit(cell.source))

\* What split_cells yields for one cell of the remaining cells.
SplitCell(cell) ==
    IF cell.cell_type # "markdown" THEN <<cell>>
    ELSE Map(MarkdownCell, ReSplit(cell.source))

\* The generator split_cells(), as the sequence of the cells it yields.
split_cells(cells) ==
    Concat(Map(SplitCell, DropWhileNotMarkdown(cells)))

\* cell.source.startswith('# ')
StartsWithHeading(src) == Len(src) >= 2 /\ src[1] = "#" /\ src[2] = " "

\* re.match('^# (.*)$', cell.source).group(1), for a source that is one
\* heading line
HeadingName(src) == SubSeq(src, 3, Len(src))

\* The loop of split_into_units over the yielded cells; us is `units`.
RECURSIVE SplitLoop(_, _, _)
SplitLoop(cells, us, hdr) ==
    IF cells = <<>> THEN us
    ELSE LET cell == Head(cells)
             rest == Tail(cells)
         IN IF cell.cell_type = "markdown" /\ StartsWithHeading(cell.source)
            THEN SplitLoop(rest,
                     Append(us, Unit(HeadingName(cell.source),
                                     IF hdr THEN <<cell>> ELSE <<>>)),
                     hdr)
            ELSE IF us = <<>>
                 THEN SplitLoop(rest, us, hdr)
                 ELSE SplitLoop(rest,
                          [us EXCEPT ![Len(us)].cells = Append(@, cell)],
                          hdr)

split_into_units(cells, hdr) == SplitLoop(split_cells(cells), <<>>, hdr)

\* ------------------------------------------------------------- SpecSplit
Alphabet == {"#", " ", "\n", "a"}

\* The sources of the code cells of SpecSplit: a comment line that looks
\* like a heading, and an ordinary statement.
CodeSources == {<<"#", " ", "a">>, <<"a">>}

NbChars(cells) == Sum(Map(LAMBDA c : Len(c.source), cells))

InitSplit ==
    /\ nb = <<>>
    /\ include_header \in BOOLEAN
    /\ units = <<>>
    /\ pcSplit = "build"
    /\ IdleUnit /\ IdleSyll /\ IdleDates /\ IdleConv

AddMarkdownCell ==
    /\ pcSplit = "build"
    /\ Len(nb) < MaxCells
    /\ nb' = Append(nb, MarkdownCell(<<>>))
    /\ UNCHANGED <<include_header, units, pcSplit>>
    /\ OnlySplit

AppendChar ==
    /\ pcSplit = "build"
    /\ nb # <<>>
    /\ nb[Len(nb)].cell_type = "markdown"
    /\ NbChars(nb) < MaxChars
    /\ \E c \in Alphabet :
           nb' = [nb EXCEPT ![Len(nb)].source = Append(@, c)]
    /\ UNCHANGED <<include_header, units, pcSplit>>
    /\ OnlySplit

AddCodeCell ==
    /\ pcSplit = "build"
    /\ Len(nb) < MaxCells
    /\ \E src \in CodeSources : nb' = Append(nb, CodeCell(src, <<>>))
    /\ UNCHANGED <<include_header, units, pcSplit>>
    /\ OnlySplit

CallSplit ==
    /\ pcSplit = "build"
    /\ units' = split_into_units(nb, include_header)
    /\ pcSplit' = "done"
    /\ UNCHANGED <<nb, include_header>>
    /\ OnlySplit

NextSplit == AddMarkdownCell \/ AppendChar \/ AddCodeCell \/ CallSplit

SpecSplit == InitSplit /\ [][NextSplit]_vars

\* ---------------------------------------------------------- convert_unit
\* A structured component, the text of an olxml payload: its tag and the
\* url_name attribute it declares, if any.  ElementTree.fromstring turns
\* the text into an element with that tag and those attributes.
Component(tag, has, name) ==
    [tag |-> tag, has_url_name |-> has, url_name |-> name]

NoComponent == Component("none", FALSE, <<>>)

\* An output of a code cell.  has_data: output.get('data') is a non-empty
\* dict; olx: it has the key 'application/vnd.edx.olxml+xml', whose value
\* is payload.
Output(has_data, olx, payload) ==
    [has_data |-> has_data, olx |-> olx, payload |-> payload]

StreamOutput == Output(FALSE, FALSE, NoComponent)
PlainOutput == Output(TRUE, FALSE, NoComponent)
OlxOutput(c) == Output(TRUE, TRUE, c)

\* re.sub(r'\\begin\{ *equation *\}', '\[', ...) and the same for \end:
\* the tokens "\\begin{equation}" and "\\end{equation}" are the matches.
EqToken(tok) ==
    IF tok = "\\begin{equation}" THEN "\\["
    ELSE IF tok = "\\end{equation}" THEN "\\]"
    ELSE tok

EqRewrite(src) == Map(EqToken, src)

\* The artifacts of a unit.  An HTML artifact is the string the exporter
\* (nbconvert, outside this program) returns for a notebook of the given
\* cells; it is kept as those cells.
Html(cells) == [kind |-> "html", cells |-> cells, elem |-> NoComponent]
Xml(c) == [kind |-> "xml", cells |-> <<>>, elem |-> c]

convert_normal_cells(normal_cells) ==
    Html(Map(LAMBDA c : IF c.cell_type = "markdown"
                        THEN [c EXCEPT !.source = EqRewrite(@)]
                        ELSE c,
             normal_cells))

\* (mutant) every cell that has outputs counts as carrying none
xml_components_none(cell) == <<>>

\* (mutant) the scan stops at the first payload
xml_components_first(cell) ==
    LET xs == Map(LAMBDA o : o.payload,
                  SelectSeq(cell.outputs, LAMBDA o : o.has_data /\ o.olx))
    IN IF xs = <<>> THEN <<>> ELSE <<xs[1]>>

\* The list xml_components of one cell.
xml_components(cell) ==
    Map(LAMBDA o : o.payload,
        SelectSeq(cell.outputs, LAMBDA o : o.has_data /\ o.olx))

Returned(out) == [raised |-> FALSE, out |-> out]
Raised(out) == [raised |-> TRUE, out |-> out]

\* The loop of convert_unit and what follows it.
RECURSIVE ConvertLoop(_, _, _)
ConvertLoop(cells, unit_output, normal_cells) ==
    IF cells = <<>>
    THEN Returned(IF normal_cells # <<>>
                  THEN Append(unit_output, convert_normal_cells(normal_cells))
                  ELSE unit_output)
    ELSE LET cell == Head(cells)
             rest == Tail(cells)
         IN IF cell.cell_type = "markdown"
            THEN ConvertLoop(rest, unit_output, Append(normal_cells, cell))
            ELSE IF ~cell.has_outputs
            THEN ConvertLoop(rest, unit_output, normal_cells)
            ELSE LET xs == xml_components(cell)
                 IN IF xs = <<>>
                    THEN ConvertLoop(rest, unit_output,
                                     Append(normal_cells, cell))
                    ELSE IF Len(xs) > 1
                    THEN Raised(unit_output)
                    ELSE ConvertLoop(rest,
                             (IF normal_cells # <<>>
                              THEN Append(unit_output,
                                          convert_normal_cells(normal_cells))
                              ELSE unit_output) \o <<Xml(xs[1])>>,
                             <<>>)

convert_unit(u) == ConvertLoop(u.cells, <<>>, <<>>)

\* -------------------------------------------------------------- SpecUnit
Video == Component("video", FALSE, <<>>)
Problem == Component("problem", TRUE, <<"quiz">>)

UnitCellPool ==
    { MarkdownCell(<<"a">>),
      MarkdownCell(<<"\\begin{equation}", "a", "\\end{equation}">>),
      Cell("raw", <<"a">>, FALSE, <<>>),
      Cell("code", <<"a">>, FALSE, <<>>),
      CodeCell(<<"a">>, <<>>) }

OutputPool == {StreamOutput, PlainOutput, OlxOutput(Video), OlxOutput(Problem)}

NbOutputs(cells) == Sum(Map(LAMBDA c : Len(c.outputs), cells))

InitUnit ==
    /\ unit = Unit(<<"a">>, <<>>)
    /\ unit_result = Returned(<<>>)
    /\ pcUnit = "build"
    /\ IdleSplit /\ IdleSyll /\ IdleDates /\ IdleConv

AddUnitCell ==
    /\ pcUnit = "build"
    /\ Len(unit.cells) < MaxUnitCells
    /\ \E c \in UnitCellPool : unit' = [unit EXCEPT !.cells = Append(@, c)]
    /\ UNCHANGED <<unit_result, pcUnit>>
    /\ OnlyUnit

AddOutput ==
    /\ pcUnit = "build"
    /\ unit.cells # <<>>
    /\ unit.cells[Len(unit.cells)].has_outputs
    /\ NbOutputs(unit.cells) < MaxOutputs
    /\ \E o \in OutputPool :
           unit' = [unit EXCEPT !.cells[Len(unit.cells)].outputs = Append(@, o)]
    /\ UNCHANGED <<unit_result, pcUnit>>
    /\ OnlyUnit

CallConvertUnit ==
    /\ pcUnit = "build"
    /\ unit_result' = convert_unit(unit)
    /\ pcUnit' = "done"
    /\ UNCHANGED unit
    /\ OnlyUnit

NextUnit == AddUnitCell \/ AddOutput \/ CallConvertUnit

SpecUnit == InitUnit /\ [][NextUnit]_vars

\* -------------------------------------------------------- parse_syllabus
\* The section pattern '^\* \*\*(?P<section>.*)\*\*$' matches a line.
MatchesSection(line) ==
    /\ Len(line) >= 4
    /\ line[1] = "*" /\ line[2] = " " /\ line[3] = "**"
    /\ line[Len(line)] = "**"

\* match.group('section')
SectionGroup(line) == SubSeq(line, 4, Len(line) - 1)

\* The places of "](" in a line from its sixth token on.
LinkMarks(line) == {k \in 6..(Len(line) - 1) : line[k] = "]("}

\* The subsection pattern '^  \* \[(?P<title>.*)\]\((?P<filename>.*)\)$'
\* matches a line.
MatchesSubsection(line) ==
    /\ Len(line) >= 7
    /\ line[1] = " " /\ line[2] = " " /\ line[3] = "*" /\ line[4] = " "
    /\ line[5] = "["
    /\ line[Len(line)] = ")"
    /\ LinkMarks(line) # {}

\* The title group is greedy: it runs to the last "](" of the line.
LastLinkMark(line) ==
    CHOOSE k \in LinkMarks(line) : \A m \in LinkMarks(line) : m <= k

TitleGroup(line) == SubSeq(line, 6, LastLinkMark(line) - 1)
FilenameGroup(line) == SubSeq(line, LastLinkMark(line) + 1, Len(line) - 1)

\* None, as release_dates.get(name) returns it for a name not in the table
None == <<"None">>

\* release_dates.get(name)
DateOf(name) ==
    IF name \in DOMAIN release_dates THEN release_dates[name] ELSE None

\* The first loop of parse_syllabus: the list `syllabus` of
\* [name, date, subsections], or the IndexError of syllabus[-1] on an
\* empty list.
RECURSIVE SyllabusLoop(_, _)
SyllabusLoop(lines, acc) ==
    IF lines = <<>> THEN [raised |-> FALSE, syllabus |-> acc]
    ELSE LET line == Head(lines)
         IN IF ~(MatchesSection(line) \/ MatchesSubsection(line))
            THEN SyllabusLoop(Tail(lines), acc)
            ELSE IF MatchesSection(line)
            THEN SyllabusLoop(Tail(lines),
                     Append(acc, [name |-> SectionGroup(line),
                                  date |-> DateOf(SectionGroup(line)),
                                  subs |-> <<>>]))
            ELSE IF acc = <<>>
            THEN [raised |-> TRUE, syllabus |-> acc]
            ELSE SyllabusLoop(Tail(lines),
                     [acc EXCEPT ![Len(acc)].subs =
                         Append(@, [title |-> TitleGroup(line),
                                    filename |-> FilenameGroup(line)])])

\* f"{i:02}": the decimal digits of i, padded with zeros to two places.
Digit(n) == <<"0", "1", "2", "3", "4", "5", "6", "7", "8", "9">>[n + 1]

RECURSIVE Decimal(_)
Decimal(n) ==
    IF n < 10 THEN <<Digit(n)>> ELSE Append(Decimal(n \div 10), Digit(n % 10))

Fmt02(i) == IF i < 10 THEN <<"0", Digit(i)>> ELSE Decimal(i)

\* f"sec_{i:02}" and f"subsec_{i:02}_{j:02}"
SecUrl(i) == <<"sec_">> \o Fmt02(i)

\* (mutant) the sequential is named by its chapter's number alone
SubsecUrlOfChapter(i, j) == <<"subsec_">> \o Fmt02(i) \o <<"_">> \o Fmt02(0)

SubsecUrl(i, j) == <<"subsec_">> \o Fmt02(i) \o <<"_">> \o Fmt02(j)

\* The chapter made of the section numbered i (from 0), the body of the
\* second loop.
ChapterOf(section, i, content_folder) ==
    [category |-> "chapter",
     name |-> section.name,
     date |-> section.date,
     url |-> SecUrl(i),
     sequentials |->
        [j \in 1..Len(section.subs) |->
            [category |-> "sequential",
             name |-> section.subs[j].title,
             date |-> section.date,
             url |-> SubsecUrl(i, j - 1),
             source_notebook |->
                 <<content_folder, "/">> \o section.subs[j].filename]]]

\* (mutant) every section is kept, whatever parse_all is
KeepsSectionAlways(section, all) == TRUE

\* The test of the second loop: the section is not skipped.
KeepsSection(section, all) == all \/ section.date # None

\* The second loop of parse_syllabus: data.chapters.
RECURSIVE ChaptersLoop(_, _, _, _, _)
ChaptersLoop(syll, i, content_folder, all, chapters) ==
    IF i > Len(syll) THEN chapters
    ELSE ChaptersLoop(syll, i + 1, content_folder, all,
             IF KeepsSection(syll[i], all)
             THEN Append(chapters,
                         ChapterOf(syll[i], i - 1, content_folder))
             ELSE chapters)

\* parse_syllabus(syllabus_file, content_folder, parse_all), the notebook
\* of syllabus_file given by its cells.  Both subscripts of the opening
\* lines raise IndexError when out of range.
parse_syllabus(cells, content_folder, all) ==
    LET us == split_into_units(cells, TRUE)
    IN IF us = <<>> \/ Len(us[1].cells) < 2
       THEN [raised |-> TRUE, chapters |-> <<>>]
       ELSE LET first == SyllabusLoop(Lines(us[1].cells[2].source), <<>>)
            IN IF first.raised
               THEN [raised |-> TRUE, chapters |-> <<>>]
               ELSE [raised |-> FALSE,
                     chapters |-> ChaptersLoop(first.syllabus, 1,
                                               content_folder, all, <<>>)]

\* -------------------------------------------------------------- SpecSyll
RECURSIVE JoinLines(_)
JoinLines(lines) ==
    IF lines = <<>> THEN <<>>
    ELSE IF Len(lines) = 1 THEN lines[1]
    ELSE lines[1] \o <<"\n">> \o JoinLines(Tail(lines))

\* A syllabus notebook: one prose block, the title heading and the list.
SyllabusNotebook(lines) ==
    <<MarkdownCell(JoinLines(<< <<"#", " ", "Syllabus">> >> \o lines))>>

SectionLine(name) == <<"*", " ", "**">> \o name \o <<"**">>
SubsectionLine(title, filename) ==
    <<" ", " ", "*", " ", "[">> \o title \o <<"](">> \o filename \o <<")">>

Introduction == <<"Introduction">>
Week1 == <<"Week", " ", "1">>
SectionNames == {Introduction, Week1}

\* "3 Sep 2018"
Sep3 == <<"3", " ", "Sep", " ", "2018">>

\* The tables release_dates may hold: any of the names dated or not.
DateTables ==
    UNION {[dated -> {Sep3}] : dated \in SUBSET SectionNames}

SyllabusLinePool ==
    { SectionLine(Introduction),
      SectionLine(Week1),
      SubsectionLine(<<"Assignments">>, <<"w1/a.ipynb">>),
      SubsectionLine(<<"Lecture">>, <<"w1/b.ipynb">>),
      \* a subsection line without its indentation matches neither pattern
      <<"*", " ", "[", "Lecture", "](", "w1/b.ipynb", ")">>,
      <<>> }

InitSyll ==
    /\ syllabus = <<>>
    /\ parse_all \in BOOLEAN
    /\ release_dates \in DateTables
    /\ syll_result = [raised |-> FALSE, chapters |-> <<>>]
    /\ pcSyll = "build"
    /\ IdleSplit /\ IdleUnit /\ IdleConv

AddLine ==
    /\ pcSyll = "build"
    /\ Len(syllabus) < MaxLines
    /\ \E l \in SyllabusLinePool : syllabus' = Append(syllabus, l)
    /\ UNCHANGED <<parse_all, syll_result, pcSyll>>
    /\ OnlySyll

CallParseSyllabus ==
    /\ pcSyll = "build"
    /\ syll_result' =
           parse_syllabus(SyllabusNotebook(syllabus), "content", parse_all)
    /\ pcSyll' = "done"
    /\ UNCHANGED <<syllabus, parse_all>>
    /\ OnlySyll

NextSyll == AddLine \/ CallParseSyllabus

SpecSyll == InitSyll /\ [][NextSyll]_vars

\* ------------------------------------------------------------- converter
\* date_to_edx(date): "3 Sep 2018" becomes "2018-09-03T10:00:00Z"; the
\* day is days[1], the month days[3], the year days[5].
MonthNumber(mon) ==
    CASE mon = "Jan" -> <<"0", "1">> [] mon = "Feb" -> <<"0", "2">>
      [] mon = "Mar" -> <<"0", "3">> [] mon = "Apr" -> <<"0", "4">>
      [] mon = "May" -> <<"0", "5">> [] mon = "Jun" -> <<"0", "6">>
      [] mon = "Jul" -> <<"0", "7">> [] mon = "Aug" -> <<"0", "8">>
      [] mon = "Sep" -> <<"0", "9">> [] mon = "Oct" -> <<"1", "0">>
      [] mon = "Nov" -> <<"1", "1">> [] mon = "Dec" -> <<"1", "2">>

date_to_edx(date) ==
    <<date[5], "-">> \o MonthNumber(date[3]) \o <<"-">>
        \o (IF date[1] \in {Digit(n) : n \in 0..9}
            THEN <<"0", date[1]>> ELSE <<date[1]>>)
        \o <<"T10:00:00Z">>

\* (mutant) every sequential is graded
graded_always(chapter_url) == "true"

\* graded=('true' if chapter.url != 'sec_00' else 'false')
graded(chapter_url) ==
    IF chapter_url # <<"sec_", "0", "0">> THEN "true" ELSE "false"

\* The format attribute, "absent" when the element has none.
format(name, chapter_url) ==
    IF name = <<"Assignments">> THEN "Research"
    ELSE IF chapter_url # <<"sec_", "0", "0">> THEN "Self-check"
    ELSE "absent"

\* sequential.url + f'_{i:02}' and vertical_url + f"_out_{j:02}"
VerticalUrl(sequential_url, i) == sequential_url \o <<"_">> \o Fmt02(i)
OutUrl(vertical_url, j) == vertical_url \o <<"_out_">> \o Fmt02(j)

\* The child an artifact gives its vertical: an html element, or the
\* component itself, given the url_name when it declares none.
LeafOf(out, vertical_url, j, name) ==
    IF out.kind = "html"
    THEN [tag |-> "html",
          url_name |-> OutUrl(vertical_url, j),
          display_name |-> name]
    ELSE [tag |-> out.elem.tag,
          url_name |-> IF out.elem.has_url_name THEN out.elem.url_name
                       ELSE OutUrl(vertical_url, j),
          display_name |-> <<>>]

\* The loop over the units of a sequential: the verticals added to it,
\* the pages saved, and whether convert_unit raised.  The vertical of the
\* unit that raised is already in the tree, without children.
RECURSIVE VerticalsLoop(_, _, _, _)
VerticalsLoop(us, i, sequential_url, acc) ==
    IF i > Len(us) THEN acc
    ELSE LET vurl == VerticalUrl(sequential_url, i - 1)
             r == convert_unit(us[i])
             leaves == [j \in 1..Len(r.out) |->
                           LeafOf(r.out[j], vurl, j - 1, us[i].name)]
             vertical == [url_name |-> vurl,
                          display_name |-> us[i].name,
                          children |-> IF r.raised THEN <<>> ELSE leaves]
             next == [raised |-> r.raised,
                      verticals |-> Append(acc.verticals, vertical),
                      pages |-> acc.pages \cup
                          (IF r.raised THEN {}
                           ELSE {leaves[j].url_name : j \in
                                   {m \in 1..Len(leaves) :
                                        leaves[m].tag = "html"}})]
         IN IF r.raised THEN next
            ELSE VerticalsLoop(us, i + 1, sequential_url, next)

\* ------------------------------------------------------------------ Spec
Assignments == SubsectionLine(<<"Assignments">>, <<"w1/a.ipynb">>)
Lecture == SubsectionLine(<<"Lecture">>, <<"w1/b.ipynb">>)

CourseLinePool ==
    {SectionLine(Introduction), SectionLine(Week1), Assignments, Lecture}

NotebookPaths ==
    {<<"content", "/", "w1/a.ipynb">>, <<"content", "/", "w1/b.ipynb">>}

Heading(name) == <<"#", " ", name>>

NotebookPool ==
    { \* a heading, text, a video and more text
      << MarkdownCell(Heading("a") \o <<"\n", "text">>),
         CodeCell(<<"a">>, <<OlxOutput(Video)>>),
         MarkdownCell(<<"more">>) >>,
      \* two components in one block of a unit
      << MarkdownCell(Heading("a")),
         CodeCell(<<"a">>, <<OlxOutput(Video), OlxOutput(Problem)>>) >>,
      \* two components in one block before the first heading
      << MarkdownCell(<<"intro">>),
         CodeCell(<<"a">>, <<OlxOutput(Video), OlxOutput(Video)>>),
         MarkdownCell(Heading("a") \o <<"\n", "text">>) >>,
      \* two units, each with a component that declares its url_name
      << MarkdownCell(Heading("a")),
         CodeCell(<<"a">>, <<OlxOutput(Problem)>>),
         MarkdownCell(Heading("b")),
         CodeCell(<<"a">>, <<PlainOutput, OlxOutput(Problem)>>) >> }

Init ==
    /\ syllabus \in UNION {[1..n -> CourseLinePool] : n \in 0..MaxCourseLines}
    /\ release_dates \in DateTables
    /\ args \in [debug : BOOLEAN, open : BOOLEAN]
    /\ notebooks \in [NotebookPaths -> NotebookPool]
    /\ fs = {}
    /\ html_files = {}
    /\ data = <<>>
    /\ xml_course = <<>>
    /\ course_xml = NotWritten
    /\ ci = 0
    /\ si = 0
    /\ error = "none"
    /\ pc = "figures"
    /\ parse_all = FALSE
    /\ syll_result = [raised |-> FALSE, chapters |-> <<>>]
    /\ pcSyll = "idle"
    /\ IdleSplit /\ IdleUnit

\* os.makedirs(target + '/html/edx/figures') and the copy of the figures
CopyFigures ==
    /\ pc = "figures"
    /\ fs' = fs \cup {"generated/html/edx/figures"}
    /\ pc' = "temporary"
    /\ UNCHANGED <<html_files, data, xml_course, course_xml, ci, si, error>>
    /\ OnlyConv

\* dirpath = tempfile.mkdtemp() + '/course'; shutil.copytree(skeleton,
\* dirpath): the temporary directory, and the working tree inside it
MakeTemporary ==
    /\ pc = "temporary"
    /\ fs' = fs \cup {"tmp", "tmp/course"}
    /\ pc' = "syllabus"
    /\ UNCHANGED <<html_files, data, xml_course, course_xml, ci, si, error>>
    /\ OnlyConv

\* data = parse_syllabus(syllabus_nb, content_folder), then course.xml of
\* the working tree is read
LoadSyllabus ==
    /\ pc = "syllabus"
    /\ LET r == parse_syllabus(SyllabusNotebook(syllabus), "content", FALSE)
       IN IF r.raised
          THEN /\ pc' = "failed"
               /\ error' = "IndexError"
               /\ UNCHANGED <<data, ci>>
          ELSE /\ pc' = "chapter"
               /\ data' = r.chapters
               /\ ci' = 1
               /\ UNCHANGED error
    /\ UNCHANGED <<fs, html_files, xml_course, course_xml, si>>
    /\ OnlyConv

\* for chapter in data.chapters: the chapter element; strptime raises
\* TypeError on a date that is None
BeginChapter ==
    /\ pc = "chapter"
    /\ ci <= Len(data)
    /\ IF data[ci].date = None
       THEN /\ pc' = "failed"
            /\ error' = "TypeError"
            /\ UNCHANGED <<xml_course, si>>
       ELSE /\ xml_course' =
                   Append(xml_course,
                          [url_name |-> data[ci].url,
                           display_name |-> data[ci].name,
                           start |-> date_to_edx(data[ci].date),
                           sequentials |-> <<>>])
            /\ si' = 1
            /\ pc' = "sequential"
            /\ UNCHANGED error
    /\ UNCHANGED <<fs, html_files, data, course_xml, ci>>
    /\ OnlyConv

\* for sequential in chapter.sequentials: the sequential element, the
\* units of its notebook, their verticals and the pages of their HTML
CompileSequential ==
    /\ pc = "sequential"
    /\ si <= Len(data[ci].sequentials)
    /\ LET chapter == data[ci]
           sequential == chapter.sequentials[si]
           us == split_into_units(notebooks[sequential.source_notebook],
                                  FALSE)
           r == VerticalsLoop(us, 1, sequential.url,
                    [raised |-> FALSE, verticals |-> <<>>, pages |-> {}])
           sequential_xml ==
               [url_name |-> sequential.url,
                display_name |-> sequential.name,
                graded |-> graded(chapter.url),
                format |-> format(sequential.name, chapter.url),
                verticals |-> r.verticals]
       IN /\ xml_course' =
                 [xml_course EXCEPT ![Len(xml_course)].sequentials =
                     Append(@, sequential_xml)]
          /\ html_files' = html_files \cup r.pages
          /\ IF r.raised
             THEN pc' = "failed" /\ error' = "RuntimeError" /\ UNCHANGED si
             ELSE pc' = "sequential" /\ si' = si + 1 /\ UNCHANGED error
    /\ UNCHANGED <<fs, data, course_xml, ci>>
    /\ OnlyConv

\* the inner loop ends: the next chapter
EndChapter ==
    /\ pc = "sequential"
    /\ si > Len(data[ci].sequentials)
    /\ ci' = ci + 1
    /\ pc' = "chapter"
    /\ UNCHANGED <<fs, html_files, data, xml_course, course_xml, si, error>>
    /\ OnlyConv

\* the outer loop ends: save_xml(xml_course, course_xml_path)
SaveXml ==
    /\ pc = "chapter"
    /\ ci > Len(data)
    /\ course_xml' = [written |-> TRUE, tree |-> xml_course]
    /\ pc' = "tar"
    /\ UNCHANGED <<fs, html_files, data, xml_course, ci, si, error>>
    /\ OnlyConv

\* tarfile.open(...), tar.add(dirpath), tar.close()
CreateTar ==
    /\ pc = "tar"
    /\ fs' = fs \cup {"generated/import_to_edx.tar.gz"}
    /\ pc' = "debug"
    /\ UNCHANGED <<html_files, data, xml_course, course_xml, ci, si, error>>
    /\ OnlyConv

\* if args.debug: shutil.copytree(dirpath, target + '/files'), which
\* raises FileExistsError when an earlier run left target + '/files'
DebugCopy ==
    /\ pc = "debug"
    /\ IF args.debug
       THEN \E left_by_earlier_run \in BOOLEAN :
                IF left_by_earlier_run
                THEN /\ pc' = "failed"
                     /\ error' = "FileExistsError"
                     /\ UNCHANGED fs
                ELSE /\ fs' = fs \cup {"generated/files"}
                     /\ pc' = "open"
                     /\ UNCHANGED error
       ELSE pc' = "open" /\ UNCHANGED <<fs, error>>
    /\ UNCHANGED <<html_files, data, xml_course, course_xml, ci, si>>
    /\ OnlyConv

\* if args.open: with debug, subprocess.check_call(['nautilus', ...]),
\* which returns or raises; without debug, a message
OpenFiles ==
    /\ pc = "open"
    /\ IF args.open /\ args.debug
       THEN \E returned \in BOOLEAN :
                IF returned
                THEN pc' = "cleaning" /\ UNCHANGED error
                ELSE pc' = "failed" /\ error' = "CalledProcessError"
       ELSE pc' = "cleaning" /\ UNCHANGED error
    /\ UNCHANGED <<fs, html_files, data, xml_course, course_xml, ci, si>>
    /\ OnlyConv

\* shutil.rmtree(dirpath), and converter returns
Clean ==
    /\ pc = "cleaning"
    /\ fs' = fs \ {"tmp/course"}
    /\ pc' = "done"
    /\ UNCHANGED <<html_files, data, xml_course, course_xml, ci, si, error>>
    /\ OnlyConv

Next ==
    \/ CopyFigures \/ MakeTemporary \/ LoadSyllabus \/ BeginChapter
    \/ CompileSequential \/ EndChapter \/ SaveXml \/ CreateTar
    \/ DebugCopy \/ OpenFiles \/ Clean

Spec == Init /\ [][Next]_vars

\* ------------------------------------------------------------ C1: checks
\* A top-level heading line: "# " at the start of the line.
IsHeadingLine(line) == Len(line) >= 2 /\ line[1] = "#" /\ line[2] = " "

NoCell == Cell("none", <<>>, FALSE, <<>>)
LineItem(line) == [t |-> "line", text |-> line, cell |-> NoCell]
BlockItem(cell) == [t |-> "block", text |-> <<>>, cell |-> cell]

\* The content of a document, heading by heading: result[1] is what lies
\* before the first heading, result[k + 1] what lies between the k-th
\* heading and the next.  The content is the non-empty prose lines and the
\* non-prose blocks, in document order.
RECURSIVE LineSegments(_, _)
LineSegments(lines, segs) ==
    IF lines = <<>> THEN segs
    ELSE LET l == Head(lines)
         IN IF IsHeadingLine(l)
            THEN LineSegments(Tail(lines), Append(segs, <<>>))
            ELSE IF l = <<>>
                 THEN LineSegments(Tail(lines), segs)
                 ELSE LineSegments(Tail(lines),
                          [segs EXCEPT ![Len(segs)] = Append(@, LineItem(l))])

RECURSIVE DocSegments(_, _)
DocSegments(cells, segs) ==
    IF cells = <<>> THEN segs
    ELSE LET c == Head(cells)
         IN IF c.cell_type = "markdown"
            THEN DocSegments(Tail(cells), LineSegments(Lines(c.source), segs))
            ELSE DocSegments(Tail(cells),
                     [segs EXCEPT ![Len(segs)] = Append(@, BlockItem(c))])

\* The heading lines of the prose blocks, marker stripped, in order.
RECURSIVE DocHeadings(_)
DocHeadings(cells) ==
    IF cells = <<>> THEN <<>>
    ELSE LET c == Head(cells)
         IN (IF c.cell_type = "markdown"
             THEN Map(LAMBDA l : SubSeq(l, 3, Len(l)),
                      SelectSeq(Lines(c.source), IsHeadingLine))
             ELSE <<>>) \o DocHeadings(Tail(cells))

\* The content of a unit, in the same terms.
UnitItems(cells) == DocSegments(cells, << <<>> >>)

\* C1: split_into_units returns one unit per heading line of the prose
\* blocks, in order and named by the heading text; with include_header =
\* False a unit holds exactly the content between its heading and the
\* next, none of it a heading, and what precedes the first heading is in
\* no unit; a "# " line of a code block opens no unit.
C1_SplitAtHeadings ==
    pcSplit = "done" =>
        LET heads == DocHeadings(nb)
            segs == DocSegments(nb, << <<>> >>)
        IN /\ Len(units) = Len(heads)
           /\ \A k \in 1..Len(units) : units[k].name = heads[k]
           /\ ~include_header =>
                  \A k \in 1..Len(units) :
                      UnitItems(units[k].cells) = <<segs[k + 1]>>

\* Two units with different names from one notebook that also holds a code
\* block with a "# " line, inside a unit.
C1_Witness ==
    /\ pcSplit = "done"
    /\ ~include_header
    /\ Len(units) = 2
    /\ units[1].name # units[2].name
    /\ \E k \in 1..Len(units[2].cells) :
           /\ units[2].cells[k].cell_type = "code"
           /\ IsHeadingLine(units[2].cells[k].source)

\* Prose before the first heading is discarded.
C1_WitnessPreamble ==
    /\ pcSplit = "done"
    /\ ~include_header
    /\ Len(units) = 1
    /\ DocSegments(nb, << <<>> >>)[1] # <<>>
    /\ units[1].cells # <<>>

\* ------------------------------------------------------- C2, C8: checks
\* The structured-component payloads a block carries.
Payloads(cell) ==
    IF cell.cell_type = "markdown" \/ ~cell.has_outputs THEN <<>>
    ELSE SelectSeq(cell.outputs, LAMBDA o : o.has_data /\ o.olx)

\* A code block with zero recorded outputs.
ZeroOutputs(cell) ==
    cell.cell_type = "code" /\ (~cell.has_outputs \/ cell.outputs = <<>>)

\* A batch block: prose, or a code block with outputs none of which is a
\* structured component.
IsBatchBlock(cell) ==
    \/ cell.cell_type = "markdown"
    \/ cell.has_outputs /\ Payloads(cell) = <<>>

Rendered(cell) == [t |-> "rendered", cell |-> cell, elem |-> NoComponent]
Attached(c) == [t |-> "attached", cell |-> NoCell, elem |-> c]

\* What a block of a unit is due to become: a batch block is rendered (its
\* equation delimiters rewritten when it is prose), a block carrying one
\* component becomes that component, any other block becomes nothing.
Due(cell) ==
    IF IsBatchBlock(cell)
    THEN <<Rendered(IF cell.cell_type = "markdown"
                    THEN [cell EXCEPT !.source = EqRewrite(@)]
                    ELSE cell)>>
    ELSE IF Len(Payloads(cell)) = 1
         THEN <<Attached(Payloads(cell)[1].payload)>>
         ELSE <<>>

\* What an artifact was made from.
MadeFrom(artifact) ==
    IF artifact.kind = "html" THEN Map(Rendered, artifact.cells)
    ELSE <<Attached(artifact.elem)>>

\* C2: a code block with zero recorded outputs contributes nothing: the
\* artifacts of a unit are those of the unit without such blocks.
C2_ZeroOutputBlockSkipped ==
    (pcUnit = "done" /\ ~unit_result.raised) =>
        unit_result =
            convert_unit([unit EXCEPT
                !.cells = SelectSeq(@, LAMBDA c : ~ZeroOutputs(c))])

\* C8: for a unit with no block of several payloads, convert_unit returns;
\* its artifacts, taken in order, are made from the unit's batch blocks and
\* components in the unit's order, each once; an HTML artifact is made from
\* at least one block and no two HTML artifacts are adjacent, so that each
\* is a maximal run between components.
C8_ArtifactsInBlockOrder ==
    (pcUnit = "done" /\ \A k \in 1..Len(unit.cells) :
                            Len(Payloads(unit.cells[k])) <= 1) =>
        LET out == unit_result.out
        IN /\ ~unit_result.raised
           /\ Concat(Map(MadeFrom, out)) = Concat(Map(Due, unit.cells))
           /\ \A k \in 1..Len(out) :
                  out[k].kind = "html" =>
                      /\ out[k].cells # <<>>
                      /\ k < Len(out) => out[k + 1].kind = "xml"

\* Prose, a component, prose: HTML, the component, HTML.
C8_Witness ==
    /\ pcUnit = "done"
    /\ ~unit_result.raised
    /\ Len(unit_result.out) = 3
    /\ unit_result.out[1].kind = "html"
    /\ unit_result.out[2].kind = "xml"
    /\ unit_result.out[3].kind = "html"
    /\ Len(unit.cells[2].outputs) = 2

\* --------------------------------------------------- C6, C7, C9: checks
\* A section line is "* **" name "**"; a subsection line is
\* "  * [" title "](" filename ")".
IsSectionLine(l) ==
    Len(l) >= 4 /\ l = SectionLine(SubSeq(l, 4, Len(l) - 1))

IsSubsectionLine(l) ==
    \E k \in 6..(Len(l) - 1) :
        l = SubsectionLine(SubSeq(l, 6, k - 1), SubSeq(l, k + 1, Len(l) - 1))

SectionPlaces == {p \in 1..Len(syllabus) : IsSectionLine(syllabus[p])}
SubsectionPlaces == {p \in 1..Len(syllabus) : IsSubsectionLine(syllabus[p])}

\* The section most recently opened before place p (0: none).
OwnerOf(p) ==
    IF \E q \in SectionPlaces : q < p
    THEN CHOOSE q \in SectionPlaces :
             q < p /\ \A r \in SectionPlaces : r < p => r <= q
    ELSE 0

\* The places of a set, in document order.
RECURSIVE InOrder(_)
InOrder(places) ==
    IF places = {} THEN <<>>
    ELSE LET p == CHOOSE x \in places : \A y \in places : x <= y
         IN <<p>> \o InOrder(places \ {p})

NameAt(q) == SubSeq(syllabus[q], 4, Len(syllabus[q]) - 1)

\* A section has a configured release date.
Dated(q) == NameAt(q) \in DOMAIN release_dates

\* The sections a pass emits: all of them in full-content mode, the dated
\* ones otherwise.
EmittedPlaces == {q \in SectionPlaces : parse_all \/ Dated(q)}

\* What a subsection line lists: its title and the path of its notebook.
Listed(p) ==
    LET l == syllabus[p]
        k == CHOOSE m \in 6..(Len(l) - 1) :
                 l = SubsectionLine(SubSeq(l, 6, m - 1),
                                    SubSeq(l, m + 1, Len(l) - 1))
    IN [name |-> SubSeq(l, 6, k - 1),
        source_notebook |-> <<"content", "/">> \o SubSeq(l, k + 1, Len(l) - 1)]

InResult(seq) == [name |-> seq.name, source_notebook |-> seq.source_notebook]

\* The numbers an identifier holds, in order: sec_03 holds 3, subsec_03_01
\* holds 3 and 1.
IsDigit(tok) == \E n \in 0..9 : Digit(n) = tok
DigitValue(tok) == CHOOSE n \in 0..9 : Digit(n) = tok

RECURSIVE NumbersFrom(_, _, _, _)
NumbersFrom(url, p, cur, acc) ==
    IF p > Len(url) THEN (IF cur = -1 THEN acc ELSE Append(acc, cur))
    ELSE IF IsDigit(url[p])
         THEN NumbersFrom(url, p + 1,
                  (IF cur = -1 THEN 0 ELSE 10 * cur) + DigitValue(url[p]),
                  acc)
         ELSE NumbersFrom(url, p + 1, -1,
                  IF cur = -1 THEN acc ELSE Append(acc, cur))

NumbersOf(url) == NumbersFrom(url, 1, -1, <<>>)

RECURSIVE LexLess(_, _)
LexLess(a, b) ==
    IF a = <<>> THEN b # <<>>
    ELSE IF b = <<>> THEN FALSE
    ELSE IF Head(a) # Head(b) THEN Head(a) < Head(b)
    ELSE LexLess(Tail(a), Tail(b))

StrictlyIncreasing(urls) ==
    \A k \in 1..(Len(urls) - 1) :
        LexLess(NumbersOf(urls[k]), NumbersOf(urls[k + 1]))

AllSequentials(chapters) == Concat(Map(LAMBDA ch : ch.sequentials, chapters))

C7_WitnessFull ==
    /\ pcSyll = "done"
    /\ parse_all
    /\ syllabus = <<SectionLine(Introduction), SectionLine(Week1)>>
    /\ DOMAIN release_dates = {Week1}
    /\ Map(LAMBDA ch : ch.name, syll_result.chapters) = <<Introduction, Week1>>

\* C9: no syllabus line makes parse_syllabus fail.
C9_NoHardFailure == pcSyll = "done" => ~syll_result.raised

\* ---------------------------------------------- C3, C4, C5, C10: checks
\* The notebooks of the compiled subsections: those of the sequentials of
\* data.chapters.
CompiledNotebooks ==
    {notebooks[sq.source_notebook] :
        sq \in {AllSequentials(data)[k] : k \in 1..Len(AllSequentials(data))}}

\* Some block of the notebook carries more than one payload.
SeveralPayloadsAnywhere(cells) ==
    \E k \in 1..Len(cells) : Len(Payloads(cells[k])) > 1

\* Some block of a unit of the notebook does: a block that lies after the
\* first heading line.
SeveralPayloadsInUnit(cells) ==
    LET segs == DocSegments(cells, << <<>> >>)
    IN \E k \in 2..Len(segs) : \E m \in 1..Len(segs[k]) :
           /\ segs[k][m].t = "block"
           /\ Len(Payloads(segs[k][m].cell)) > 1

Archive == "generated/import_to_edx.tar.gz"

\* The run wrote no course-definition file, made no archive, did not
\* complete, and if it has ended it ended with the multiple-components
\* error.
AbortsBeforeArchive ==
    /\ ~course_xml.written
    /\ Archive \notin fs
    /\ pc \notin {"tar", "debug", "open", "cleaning", "done"}
    /\ pc = "failed" => error = "RuntimeError"

\* C3 as stated: a block with several payloads anywhere in the notebook of
\* a compiled subsection aborts the run before the archive.
C3_AbortsOnAnyBlock ==
    (\E cells \in CompiledNotebooks : SeveralPayloadsAnywhere(cells)) =>
        AbortsBeforeArchive

\* C3, amended: a block with several payloads in a unit of the notebook of
\* a compiled subsection aborts the run with the multiple-components error
\* before the course-definition file is written and the archive made; and
\* the run ends with that error only for such a block.
C3_AbortsOnUnitBlock ==
    /\ (\E cells \in CompiledNotebooks : SeveralPayloadsInUnit(cells)) =>
           AbortsBeforeArchive
    /\ error = "RuntimeError" =>
           \E cells \in CompiledNotebooks : SeveralPayloadsInUnit(cells)

\* The run has failed on a block of the second subsection, the first one
\* compiled.
C3_Witness ==
    /\ pc = "failed"
    /\ error = "RuntimeError"
    /\ Len(xml_course) = 1
    /\ Len(xml_course[1].sequentials) = 2
    /\ xml_course[1].sequentials[1].verticals # <<>>
    /\ Archive \notin fs

\* C4 as stated: the sequentials of the first chapter of the tree are
\* ungraded, those of every other chapter graded, with format Research
\* for the name Assignments and Self-check otherwise.
C4_FirstChapterUngraded ==
    \A k \in 1..Len(xml_course) :
        \A j \in 1..Len(xml_course[k].sequentials) :
            LET sq == xml_course[k].sequentials[j]
            IN IF k = 1 THEN sq.graded = "false"
               ELSE /\ sq.graded = "true"
                    /\ sq.format = "Research"
                         <=> sq.display_name = <<"Assignments">>
                    /\ sq.format \in {"Research", "Self-check"}

\* C4, amended: the sequentials of the chapter made of the first section
\* of the syllabus (sec_00, present only when that section has a release
\* date) are ungraded; those of every other chapter are graded, with
\* format Research for the name Assignments and Self-check otherwise.
C4_FirstSectionUngraded ==
    \A k \in 1..Len(xml_course) :
        LET ch == xml_course[k]
            first == NumbersOf(ch.url_name) = <<0>>
        IN /\ first =>
                 /\ SectionPlaces # {}
                 /\ ch.display_name = NameAt(InOrder(SectionPlaces)[1])
                 /\ k = 1
           /\ \A j \in 1..Len(ch.sequentials) :
                  LET sq == ch.sequentials[j]
                  IN IF first THEN sq.graded = "false"
                     ELSE /\ sq.graded = "true"
                          /\ sq.format = "Research"
                               <=> sq.display_name = <<"Assignments">>
                          /\ sq.format \in {"Research", "Self-check"}

\* The first section has no release date: the first chapter of the tree
\* is sec_01 and its sequential is graded.
C4_Witness ==
    /\ pc = "done"
    /\ Len(xml_course) = 1
    /\ xml_course[1].url_name = <<"sec_", "0", "1">>
    /\ Len(xml_course[1].sequentials) = 1
    /\ xml_course[1].sequentials[1].graded = "true"

\* The url_name of every node of the tree, in document order.
LeafNames(vertical) == Map(LAMBDA leaf : leaf.url_name, vertical.children)
VerticalNames(sq) ==
    Concat(Map(LAMBDA v : <<v.url_name>> \o LeafNames(v), sq.verticals))
SequentialNames(ch) ==
    Concat(Map(LAMBDA sq : <<sq.url_name>> \o VerticalNames(sq),
               ch.sequentials))
AllUrlNames(tree) ==
    Concat(Map(LAMBDA ch : <<ch.url_name>> \o SequentialNames(ch), tree))

\* C5: the url_name identifiers of the nodes of the tree are pairwise
\* distinct.
C5_UrlNamesDistinct ==
    LET names == AllUrlNames(xml_course)
    IN \A a, b \in 1..Len(names) : a # b => names[a] # names[b]

\* C10: when converter returns, neither the temporary directory nor the
\* working tree inside it is left on disk.
C10_ScratchRemoved == pc = "done" => "tmp" \notin fs /\ "tmp/course" \notin fs

====
